---- MODULE Spec2Model ----
(***************************************************************************)
(* Model of webnlg_corpus/webnlg.py: the record builder                    *)
(* (make_dict_from_triple, make_dict_from_entity, read_webnlg_file), the   *)
(* load pipeline and the WebNLGCorpus view (subset, sample, as_pandas)     *)
(* over an in-memory TinyDB store.  A store is the sequence of its         *)
(* documents, each a reference into the heap of record objects, so that    *)
(* copying a record and sharing it are different things.                   *)
(*                                                                         *)
(* Texts that the code splits or searches are sequences of one-character   *)
(* strings, so that split, strip and the substring test are computed.      *)
(* An optional argument is a sequence of length 0 (None) or 1.             *)
(* A call's outcome is a record [kind |-> "ok", value |-> v] or            *)
(* [kind |-> <the exception class>].                                       *)
(***************************************************************************)
EXTENDS Integers, Sequences, FiniteSets, TLC

VARIABLES heap, views, result, marked

vars == <<heap, views, result, marked>>

\* ------------------------------------------------------------------ bounds
MaxEntries == 2

MaxViews == 3

MaxInserts == 1

MaxScans == 2

\* ------------------------------------------------------------ Python basics
None == <<>>

Just(x) == <<x>>

Ok(v) == [kind |-> "ok", value |-> v]

Raise(e) == [kind |-> e]

Min(a, b) == IF a < b THEN a ELSE b

Range(s) == {s[i] : i \in 1..Len(s)}

RECURSIVE SumSeq(_)
SumSeq(s) == IF s = <<>> THEN 0 ELSE Head(s) + SumSeq(Tail(s))

RECURSIVE Flatten(_)
Flatten(ss) == IF ss = <<>> THEN <<>> ELSE Head(ss) \o Flatten(Tail(ss))

\* str.split(sep) for a one-character separator: always at least one part
RECURSIVE split(_, _)
split(text, sep) ==
    IF \E i \in 1..Len(text) : text[i] = sep
    THEN LET i == CHOOSE k \in 1..Len(text) :
                     /\ text[k] = sep
                     /\ \A j \in 1..(k - 1) : text[j] /= sep
         IN  <<SubSeq(text, 1, i - 1)>> \o split(SubSeq(text, i + 1, Len(text)), sep)
    ELSE <<text>>

\* str.strip(): drops the blanks at both ends
RECURSIVE strip(_)
strip(text) ==
    IF text = <<>> THEN text
    ELSE IF Head(text) = " " THEN strip(Tail(text))
    ELSE IF text[Len(text)] = " " THEN strip(SubSeq(text, 1, Len(text) - 1))
    ELSE text

\* the substring test  sub in text
Contains(sub, text) ==
    \E i \in 0..(Len(text) - Len(sub)) : SubSeq(text, i + 1, i + Len(sub)) = sub

DigitValue(c) ==
    CASE c = "0" -> 0 [] c = "1" -> 1 [] c = "2" -> 2 [] c = "3" -> 3
      [] c = "4" -> 4 [] c = "5" -> 5 [] c = "6" -> 6 [] c = "7" -> 7
      [] c = "8" -> 8 [] c = "9" -> 9

\* int(s) for a string of decimal digits
RECURSIVE int(_)
int(s) ==
    IF Len(s) = 1 THEN DigitValue(s[1])
    ELSE 10 * int(SubSeq(s, 1, Len(s) - 1)) + DigitValue(s[Len(s)])

\* ---------------------------------------------------------- record builder
TRIPLE_KEYS == <<"subject", "predicate", "object">>

KeyPos(k) == CHOOSE i \in 1..Len(TRIPLE_KEYS) : TRIPLE_KEYS[i] = k

\* zip(TRIPLE_KEYS, parts) stops at the shorter of the two
make_dict_from_triple(triple_text) ==
    LET parts == split(triple_text, "|")
        n     == Min(Len(TRIPLE_KEYS), Len(parts))
    IN  [k \in {"text"} \cup {TRIPLE_KEYS[i] : i \in 1..n} |->
            IF k = "text" THEN triple_text ELSE strip(parts[KeyPos(k)])]

\* the body of make_dict_from_entity, run only when the generator is iterated
EntityPair(entity_text) ==
    LET parts == split(entity_text, "|")
    IN  <<strip(parts[1]), strip(parts[2])>>

\* a generator function: the call runs none of the body and returns a
\* generator object; every call returns a new object (its position in the
\* entity map gives it its identity)
make_dict_from_entity(entity_text, pos) ==
    [generator |-> "make_dict_from_entity", entity_text |-> entity_text, id |-> pos]

\* container[key] as Python evaluates it
GetItem(container, key) ==
    IF IsFiniteSet(container) THEN Raise("TypeError")
    ELSE IF key \in DOMAIN container THEN Ok(container[key])
    ELSE Raise("KeyError")

V12 == <<"v", "1", ".", "2">>

IdxOf(dataset, category, ntriples, eid) ==
    dataset \o "_" \o category \o "_" \o ToString(ntriples) \o "_" \o eid

PlainLex(e) == [text |-> e.text, comment |-> e.comment, lid |-> e.lid]

RicherLex(e) ==
    [text     |-> e.text,
     template |-> IF e.template = None THEN "NOT-FOUND" ELSE e.template[1],
     comment  |-> e.comment,
     lid      |-> e.lid]

MapSeq(Op(_), s) == [i \in 1..Len(s) |-> Op(s[i])]

\* the body of the loop over root.iter('entry') for one entry
ReadEntry(dataset, filepath, entry) ==
    LET ntriples == int(entry.size)
        base ==
            [dataset  |-> dataset,
             idx      |-> IdxOf(dataset, entry.category, ntriples, entry.eid),
             category |-> entry.category,
             eid      |-> entry.eid,
             ntriples |-> ntriples,
             content  |-> [tostring |-> <<entry.category, entry.eid, entry.size>>],
             otriples |-> MapSeq(make_dict_from_triple, entry.otriples),
             mtriples |-> MapSeq(make_dict_from_triple, entry.mtriples)]
    IN  IF Contains(V12, filepath)
        THEN LET entity_map ==
                     {make_dict_from_entity(entry.entitymap[i], i) :
                          i \in 1..Len(entry.entitymap)}
                 Delex(d) ==
                     LET s == GetItem(entity_map, d["subject"])
                         o == IF "object" \in DOMAIN d
                              THEN GetItem(entity_map, d["object"])
                              ELSE Raise("KeyError")
                     IN  IF s.kind /= "ok" THEN s
                         ELSE IF o.kind /= "ok" THEN o
                         ELSE IF "predicate" \notin DOMAIN d THEN Raise("KeyError")
                         ELSE Ok([subject   |-> s.value,
                                  predicate |-> d["predicate"],
                                  object    |-> o.value])
                 delex == [i \in 1..Len(base.mtriples) |-> Delex(base.mtriples[i])]
                 bad   == {i \in 1..Len(delex) : delex[i].kind /= "ok"}
             IN  IF bad /= {}
                 THEN delex[CHOOSE i \in bad : \A j \in bad : i <= j]
                 ELSE Ok(base @@
                         [lexes      |-> MapSeq(RicherLex, entry.lexes),
                          entity_map |-> entity_map,
                          delexicalized_mtriples |->
                              [i \in 1..Len(delex) |-> delex[i].value]])
        ELSE Ok(base @@ [lexes |-> MapSeq(PlainLex, entry.lexes)])

\* a loop that an exception leaves: the first exception of its steps, or the
\* values of all of them in order
FirstRaise(steps) ==
    LET bad == {i \in 1..Len(steps) : steps[i].kind /= "ok"}
    IN  IF bad /= {}
        THEN steps[CHOOSE i \in bad : \A j \in bad : i <= j]
        ELSE Ok([i \in 1..Len(steps) |-> steps[i].value])

\* entries is what ET.parse(filepath).getroot().iter('entry') yields
read_webnlg_file(dataset, filepath, entries) ==
    FirstRaise([i \in 1..Len(entries) |-> ReadEntry(dataset, filepath, entries[i])])

\* ------------------------------------------------- what the parser hands over
\* "A | c | B"
T_ABC == <<"A", " ", "|", " ", "c", " ", "|", " ", "B">>

\* "A|c": two parts only
T_AC == <<"A", "|", "c">>

\* "A | c | B | D": a fourth part
T_ABCD == <<"A", " ", "|", " ", "c", " ", "|", " ", "B", " ", "|", " ", "D">>

\* "E | c | F": a modified triple over the placeholders E and F
T_ECF == <<"E", " ", "|", " ", "c", " ", "|", " ", "F">>

\* "E | P" and "F | Q": entity lines, placeholder | surface string
E_EP == <<"E", " ", "|", " ", "P">>

E_FQ == <<"F", " ", "|", " ", "Q">>

Lex1 == [text |-> "t1", template |-> Just("m1"), comment |-> "good", lid |-> "Id1"]

Lex2 == [text |-> "t2", template |-> None, comment |-> "", lid |-> "Id2"]

RawEntry(category, size, eid, otriples, mtriples, lexes, entitymap) ==
    [category |-> category, size |-> size, eid |-> eid, otriples |-> otriples,
     mtriples |-> mtriples, lexes |-> lexes, entitymap |-> entitymap]

\* the <entry> elements the files are made of
RawEntries ==
    { RawEntry("Airport", <<"1">>, "Id1", <<T_ABC, T_ABCD>>, <<T_ECF>>, <<Lex1>>,
               <<E_EP, E_FQ>>),
      RawEntry("City", <<"2">>, "Id2", <<T_ABC, T_AC>>, <<T_ECF>>, <<Lex1, Lex2>>,
               <<E_EP>>),
      RawEntry("Airport", <<"2">>, "Id3", <<>>, <<>>, <<Lex2>>, <<>>) }

SeqsOfLen(S, n) == [1..n -> S]

\* ------------------------------------------------------ dataset resolver
RELEASES_URLS == {"v1.0", "v1.2"}

ReleaseNames == RELEASES_URLS \cup {"v9.9"}

get_release_datasets_dir(release) == <<"train", "dev">>

ReleaseDir(release) ==
    IF release = "v1.2" THEN <<"v", "1", ".", "2", "/">> ELSE <<"v", "1", ".", "0", "/">>

\* one file per dataset
get_dataset_files(release, dataset_name) ==
    <<ReleaseDir(release) \o (IF dataset_name = "train" THEN <<"t">> ELSE <<"d">>)>>

\* the contents of a release on disk: for each dataset, for each of its files,
\* the entries of the file; at most MaxEntries entries in all
Contents ==
    UNION { { <<a, b>> : a \in {<<f>> : f \in SeqsOfLen(RawEntries, n)},
                         b \in {<<f>> : f \in SeqsOfLen(RawEntries, m)} } :
            <<n, m>> \in {p \in (0..MaxEntries) \X (0..MaxEntries) :
                              p[1] + p[2] <= MaxEntries} }

\* every (dataset, filepath, entries) of the release, in the order load reads them
FilesOf(release, contents) ==
    LET names == get_release_datasets_dir(release)
    IN  Flatten([d \in 1..Len(names) |->
            LET paths == get_dataset_files(release, names[d])
            IN  [f \in 1..Len(paths) |->
                    [dataset |-> names[d], filepath |-> paths[f],
                     entries |-> contents[d][f]]]])

\* ------------------------------------------------------------------- state
\* heap: the record objects (dicts) held by the stores, by reference
\* views: the WebNLGCorpus objects; db is the store's documents in doc_id order
\* result: the outcome of the last call
\* marked: one earlier sample call and its outcome, kept for comparison, and
\*   whether a different sample call was made after it
\* parent: the view a view was derived from by subset (0 for a loaded one)
NewView(release, db, parent) ==
    [release |-> release, db |-> db, pandas |-> None, scans |-> 0,
     inserts |-> 0, parent |-> parent]

\* TinyDB.insert_multiple into a fresh store: each document is copied (dict(doc))
Alloc(records) == [i \in 1..Len(records) |-> Len(heap) + i]

Records(v) == [i \in 1..Len(views[v].db) |-> heap[views[v].db[i]]]

len(v) == Len(views[v].db)

Init ==
    /\ heap = <<>>
    /\ views = <<>>
    /\ result = [op |-> "init"]
    /\ marked = None

\* ------------------------------------------------------------------- load
\* db.insert_multiple(entries_dicts) file after file
InsertedInOrder(read) ==
    IF read.kind = "ok" THEN Ok(Flatten(read.value)) ELSE read

\* the loop of load over the files: the first file that fails ends it
LoadFiles(files) ==
    InsertedInOrder(FirstRaise(
        [f \in 1..Len(files) |->
            read_webnlg_file(files[f].dataset, files[f].filepath, files[f].entries)]))

load(release, contents) ==
    IF release \notin RELEASES_URLS THEN Raise("ValueError")
    ELSE LoadFiles(FilesOf(release, contents))

\* the state after load(release) has ended with r
Loaded(release, contents, r) ==
    IF r.kind = "ok"
    THEN /\ heap' = heap \o r.value
         /\ views' = Append(views, NewView(release, Alloc(r.value), 0))
         /\ result' = [op |-> "load", release |-> release, contents |-> contents,
                       kind |-> "ok", view |-> Len(views) + 1]
    ELSE /\ result' = [op |-> "load", release |-> release, contents |-> contents,
                       kind |-> r.kind, view |-> 0]
         /\ UNCHANGED <<heap, views>>

\* a behaviour follows one loaded release and the views derived from it
Load ==
    /\ views = <<>>
    /\ \E release \in ReleaseNames, contents \in Contents :
         Loaded(release, contents, load(release, contents))
    /\ UNCHANGED marked

\* ----------------------------------------------------------------- queries
\* a collection argument counts as given when it is not None and not empty
Truthy(a) == a /= None /\ a[1] /= {}

\* a string argument counts as given when it is not None and not ""
TruthyStr(a) == a /= None /\ a[1] /= ""

one_of(field, items) == [field |-> field, test |-> "one_of", arg |-> items]

equals(field, value) == [field |-> field, test |-> "==", arg |-> value]

Test(clause, record) ==
    IF clause.test = "one_of" THEN record[clause.field] \in clause.arg
    ELSE record[clause.field] = clause.arg

AllOf_or(filters, record) == \E i \in 1..Len(filters) : Test(filters[i], record)

\* reduce(__and__, filters) applied to one record; filters is not empty
AllOf(filters, record) == \A i \in 1..Len(filters) : Test(filters[i], record)

search_shared(db, filters) ==
    LET Matches(ref) == AllOf(filters, heap[ref])
    IN  SelectSeq([i \in 1..Len(heap) |-> i], Matches)

\* TinyDB.search: the references of the matching documents, in store order
search(db, filters) ==
    LET Matches(ref) == AllOf(filters, heap[ref])
    IN  SelectSeq(db, Matches)

insert_multiple_aliased(h, refs) == [heap |-> h, db |-> refs]

\* TinyDB.insert_multiple into a fresh store: table[doc_id] = dict(document)
insert_multiple(h, refs) ==
    [heap |-> h \o [i \in 1..Len(refs) |-> h[refs[i]]],
     db   |-> [i \in 1..Len(refs) |-> Len(h) + i]]

\* ------------------------------------------------------------------ subset
SubsetFilters(ntriples, categories, datasets) ==
    (IF Truthy(ntriples) THEN <<one_of("ntriples", ntriples[1])>> ELSE <<>>)
    \o (IF Truthy(categories) THEN <<one_of("category", categories[1])>> ELSE <<>>)
    \o (IF Truthy(datasets) THEN <<one_of("dataset", datasets[1])>> ELSE <<>>)

\* the references subset copies into the new store, or the exception it raises
subset(v, ntriples, categories, datasets) ==
    IF ntriples = None /\ categories = None /\ datasets = None
    THEN Raise("ValueError")
    ELSE LET filters == SubsetFilters(ntriples, categories, datasets)
         IN  IF filters = <<>> THEN Raise("TypeError")
             ELSE Ok(search(views[v].db, filters))

NtriplesArgs == {None, Just({}), Just({1}), Just({1, 2})}

CategoriesArgs == {None, Just({}), Just({"Airport"})}

DatasetsArgs == {None, Just({"train"})}

Subset ==
    /\ Len(views) < MaxViews
    /\ \E v \in 1..Len(views), ntriples \in NtriplesArgs,
          categories \in CategoriesArgs, datasets \in DatasetsArgs :
         LET r == subset(v, ntriples, categories, datasets)
             args == <<ntriples, categories, datasets>>
         IN  IF r.kind = "ok"
             THEN LET ins == insert_multiple(heap, r.value)
                  IN  /\ heap' = ins.heap
                      /\ views' = Append(views,
                                     NewView(views[v].release, ins.db, v))
                      /\ result' = [op |-> "subset", view |-> v, args |-> args,
                                    kind |-> "ok", value |-> Len(views) + 1]
             ELSE /\ result' = [op |-> "subset", view |-> v, args |-> args,
                                kind |-> r.kind, value |-> 0]
                  /\ UNCHANGED <<heap, views>>
    /\ UNCHANGED marked

NextSubset == Load \/ Subset

SpecSubset == Init /\ [][NextSubset]_vars

\* ------------------------------------------------------------------ sample
SeedState_unseeded(seed, entropy) == entropy

\* Random.seed(a): None takes the state from the operating system's entropy
SeedState(seed, entropy) == IF seed = None THEN entropy ELSE seed[1]

\* the generator's first draw below n, a fixed function of its state
RandBelow(state, n) == (5 * state + 3) % n

\* Random.choice(seq): IndexError on an empty sequence
choice(state, seq) ==
    IF seq = <<>> THEN Raise("IndexError")
    ELSE Ok(seq[RandBelow(state, Len(seq)) + 1])

SampleFilters(eid, categories, ntriples, idx, datasets) ==
    (IF TruthyStr(idx) THEN <<equals("idx", idx[1])>> ELSE <<>>)
    \o (IF TruthyStr(eid) THEN <<equals("eid", eid[1])>> ELSE <<>>)
    \o (IF Truthy(categories) THEN <<one_of("category", categories[1])>> ELSE <<>>)
    \o (IF Truthy(ntriples) THEN <<one_of("ntriples", ntriples[1])>> ELSE <<>>)
    \o (IF Truthy(datasets) THEN <<one_of("dataset", datasets[1])>> ELSE <<>>)

\* WebNLGEntry.__init__: the entity_map read_webnlg_file builds is a set, and
\* a set has no items()
WebNLGEntry(entry) ==
    IF "entity_map" \in DOMAIN entry
    THEN IF IsFiniteSet(entry.entity_map) THEN Raise("AttributeError")
         ELSE Ok([entry |-> entry,
                  delexicalize_map |->
                      [val \in {entry.entity_map[k] : k \in DOMAIN entry.entity_map} |->
                          CHOOSE k \in DOMAIN entry.entity_map :
                              entry.entity_map[k] = val]])
    ELSE Ok([entry |-> entry])

\* the entry sample returns, or the exception
sample(v, eid, categories, ntriples, idx, seed, datasets, entropy) ==
    LET state == SeedState(seed, entropy)
        sample_entry ==
            IF TruthyStr(eid) \/ Truthy(categories) \/ Truthy(ntriples)
               \/ TruthyStr(idx) \/ Truthy(datasets)
            THEN choice(state, search(views[v].db,
                            SampleFilters(eid, categories, ntriples, idx, datasets)))
            ELSE choice(state, views[v].db)
    IN  IF sample_entry.kind /= "ok" THEN sample_entry
        ELSE WebNLGEntry(heap[sample_entry.value])

Selectors(eid, categories, ntriples, idx, datasets) ==
    [eid |-> eid, categories |-> categories, ntriples |-> ntriples,
     idx |-> idx, datasets |-> datasets]

SampleSelectors ==
    { Selectors(None, None, None, None, None),
      Selectors(Just(""), Just({}), None, None, None),
      Selectors(Just("Id1"), None, None, None, None),
      Selectors(None, Just({"Airport"}), None, None, None),
      Selectors(None, Just({"NoSuchCategory"}), None, None, None),
      Selectors(None, None, Just({2}), None, Just({"train", "dev"})),
      Selectors(Just("Id1"), Just({"Airport", "City"}), Just({1, 2}),
                Just("train_Airport_1_Id1"), Just({"train"})) }

Seeds == {None, Just(0)}

Entropy == {0, 1}

Sample ==
    /\ \E v \in 1..Len(views), sel \in SampleSelectors, seed \in Seeds :
        \E entropy \in Entropy,
           mark \in (IF marked = None /\ result.op = "sample" THEN BOOLEAN
                     ELSE {FALSE}) :
         LET r == sample(v, sel.eid, sel.categories, sel.ntriples, sel.idx, seed,
                         sel.datasets, entropy)
             call == [op |-> "sample", view |-> v, selectors |-> sel, seed |-> seed,
                      kind |-> r.kind,
                      value |-> IF r.kind = "ok" THEN Just(r.value.entry) ELSE None]
         IN  /\ result' = call
             /\ marked' = IF mark THEN Just([call |-> result, between |-> FALSE])
                           ELSE IF marked /= None /\ call /= marked[1].call
                           THEN Just([marked[1] EXCEPT !.between = TRUE])
                           ELSE marked
    /\ UNCHANGED <<heap, views>>

\* --------------------------------------------------------------- as_pandas
TripleRow(entry, t) ==
    [idx |-> entry.idx, dataset |-> entry.dataset, category |-> entry.category,
     text |-> t["text"], object |-> t["object"], predicate |-> t["predicate"],
     subject |-> t["subject"]]

\* the keys the row of a triple reads; a missing one is a KeyError
TripleRowReads(t) == {"text", "object", "predicate", "subject"} \subseteq DOMAIN t

EntryRow(entry) ==
    [idx |-> entry.idx, dataset |-> entry.dataset, category |-> entry.category,
     eid |-> entry.eid, ntriples |-> entry.ntriples, content |-> entry.content]

LexRow(entry, l) ==
    [idx |-> entry.idx, dataset |-> entry.dataset, category |-> entry.category,
     text |-> l.text, comment |-> l.comment, lid |-> l.lid]

\* pd.DataFrame(list of dicts): the rows in order under the union of their keys
DataFrame(rows) ==
    [columns |-> UNION {DOMAIN rows[i] : i \in 1..Len(rows)}, rows |-> rows]

PANDAS_CONTAINER(edf, odf, mdf, ldf) ==
    [edf |-> edf, odf |-> odf, mdf |-> mdf, ldf |-> ldf]

\* the scan of as_pandas over the store's records
Scan(records) ==
    IF \E i \in 1..Len(records) :
          \/ \E j \in 1..Len(records[i].otriples) : ~TripleRowReads(records[i].otriples[j])
          \/ \E j \in 1..Len(records[i].mtriples) : ~TripleRowReads(records[i].mtriples[j])
    THEN Raise("KeyError")
    ELSE LET OtRows(e) == [j \in 1..Len(e.otriples) |-> TripleRow(e, e.otriples[j])]
             MtRows(e) == [j \in 1..Len(e.mtriples) |-> TripleRow(e, e.mtriples[j])]
             LxRows(e) == [j \in 1..Len(e.lexes) |-> LexRow(e, e.lexes[j])]
         IN  Ok(PANDAS_CONTAINER(
                    DataFrame(MapSeq(EntryRow, records)),
                    DataFrame(Flatten(MapSeq(OtRows, records))),
                    DataFrame(Flatten(MapSeq(MtRows, records))),
                    DataFrame(Flatten(MapSeq(LxRows, records)))))

\* hasattr(self, '_pandas'): the cached container is returned as it is
as_pandas(v) ==
    IF views[v].pandas /= None
    THEN [kind |-> "ok", value |-> views[v].pandas[1], scanned |-> FALSE]
    ELSE LET r == Scan(Records(v))
         IN  IF r.kind = "ok"
             THEN [kind |-> "ok", value |-> r.value, scanned |-> TRUE]
             ELSE [kind |-> r.kind, scanned |-> TRUE]

\* edf, odf, mdf, ldf read one table of as_pandas
Properties == {"edf", "odf", "mdf", "ldf", "as_pandas"}

PropertyOf(container, prop) ==
    IF prop = "as_pandas" THEN container ELSE container[prop]

AsPandas ==
    /\ \E v \in 1..Len(views), prop \in Properties :
         LET r == as_pandas(v)
         IN  /\ r.scanned => views[v].scans < MaxScans
             /\ views' = [views EXCEPT
                   ![v].pandas = IF r.kind = "ok" THEN Just(r.value) ELSE @,
                   ![v].scans = IF r.scanned THEN @ + 1 ELSE @]
             /\ result' = [op |-> "as_pandas", view |-> v, prop |-> prop,
                           kind |-> r.kind, scanned |-> r.scanned,
                           value |-> IF r.kind = "ok"
                                     THEN Just(PropertyOf(r.value, prop)) ELSE None]
    /\ UNCHANGED <<heap, marked>>

\* ------------------------------------------------- writes to a view's store
\* the writes made so far to the stores of all views
Writes == SumSeq([v \in 1..Len(views) |-> views[v].inserts])

\* the documents a caller may insert: plain records of the dev dataset
NewDocuments ==
    {ReadEntry("dev", get_dataset_files("v1.0", "dev")[1], e).value : e \in RawEntries}

\* TinyDB.insert_multiple on the store of view v
StoreInsert ==
    /\ \E v \in 1..Len(views), doc \in NewDocuments :
         /\ Writes < MaxInserts
         /\ heap' = Append(heap, doc)
         /\ views' = [views EXCEPT ![v].db = Append(@, Len(heap) + 1),
                                   ![v].inserts = @ + 1]
         /\ result' = [op |-> "insert", view |-> v]
    /\ UNCHANGED marked

\* TinyDB.update of one top-level field of the i-th document of view v's store
StoreUpdate ==
    /\ \E v \in 1..Len(views) :
         /\ Writes < MaxInserts
         /\ \E i \in 1..Len(views[v].db) :
              /\ heap' = [heap EXCEPT ![views[v].db[i]].category = "Monument"]
              /\ views' = [views EXCEPT ![v].inserts = @ + 1]
              /\ result' = [op |-> "update", view |-> v, doc |-> i]
    /\ UNCHANGED marked

\* --------------------------------------------------------- specifications
NextSample == Load \/ Sample

SpecSample == Init /\ [][NextSample]_vars

NextPandas == Load \/ AsPandas \/ StoreInsert

SpecPandas == Init /\ [][NextPandas]_vars

NextStore == Load \/ Subset \/ StoreInsert \/ StoreUpdate

SpecStore == Init /\ [][NextStore]_vars

Next == Load \/ Subset \/ Sample \/ AsPandas \/ StoreInsert \/ StoreUpdate

Spec == Init /\ [][Next]_vars

\* ------------------------------------------------------------- properties
\* an argument supplies a clause when it is given and not empty
Given(a) == a /= None /\ a[1] /= {}

GivenStr(a) == a /= None /\ a[1] /= ""

\* the record satisfies every clause the subset arguments supply
Satisfies(args, record) ==
    /\ Given(args[1]) => record.ntriples \in args[1][1]
    /\ Given(args[2]) => record.category \in args[2][1]
    /\ Given(args[3]) => record.dataset \in args[3][1]

Matching(records, args) ==
    LET Keep(record) == Satisfies(args, record)
    IN  SelectSeq(records, Keep)

MatchingBoth(records, a, b) ==
    LET Keep(record) == Satisfies(a, record) /\ Satisfies(b, record)
    IN  SelectSeq(records, Keep)

SubsetArgs == NtriplesArgs \X CategoriesArgs \X DatasetsArgs

\* C1: a subset call with at least one non-empty argument returns a view whose
\* store holds exactly the parent's records that satisfy every supplied clause,
\* in the parent's order, so it is no longer than the parent
C1_SubsetHoldsTheMatches ==
    (result.op = "subset" /\ \E i \in 1..3 : Given(result.args[i])) =>
        /\ result.kind = "ok"
        /\ Records(result.value) = Matching(Records(result.view), result.args)
        /\ len(result.value) <= len(result.view)

C1_Witness ==
    /\ result.op = "subset"
    /\ result.kind = "ok"
    /\ Cardinality({i \in 1..3 : Given(result.args[i])}) >= 2
    /\ 0 < len(result.value)
    /\ len(result.value) < len(result.view)

\* C2: a subset call that supplies no clause (every argument omitted or empty)
\* fails with the ValueError and returns no view
C2_NoClauseIsValueError ==
    (result.op = "subset" /\ \A i \in 1..3 : ~Given(result.args[i])) =>
        /\ result.kind = "ValueError"
        /\ result.value = 0

\* C3 as stated: two sample calls on the same store with the same seed argument
\* (an omitted seed included) and the same selectors have the same outcome
C3_SameSeedSameRecord ==
    (/\ marked /= None
     /\ result.op = "sample"
     /\ result.view = marked[1].call.view
     /\ result.selectors = marked[1].call.selectors
     /\ result.seed = marked[1].call.seed) =>
        /\ result.kind = marked[1].call.kind
        /\ result.value = marked[1].call.value

\* C3 amended: two sample calls on the same store with the same seed argument
\* other than an omitted seed, and the same selectors, have the same outcome,
\* whatever sample calls were made in between
C3_SameGivenSeedSameRecord ==
    (/\ marked /= None
     /\ result.op = "sample"
     /\ result.view = marked[1].call.view
     /\ result.selectors = marked[1].call.selectors
     /\ result.seed = marked[1].call.seed
     /\ result.seed /= None) =>
        /\ result.kind = marked[1].call.kind
        /\ result.value = marked[1].call.value

C3_Witness ==
    /\ marked /= None
    /\ result.op = "sample"
    /\ result.view = marked[1].call.view
    /\ result.selectors = marked[1].call.selectors
    /\ result.seed = marked[1].call.seed
    /\ result.seed /= None
    /\ result.kind = "ok"
    /\ Cardinality(Range(Records(result.view))) >= 2
    /\ Given(result.selectors.categories)
    /\ marked[1].between

\* the record satisfies every clause the sample selectors supply
SatisfiesSelectors(sel, record) ==
    /\ GivenStr(sel.idx) => record.idx = sel.idx[1]
    /\ GivenStr(sel.eid) => record.eid = sel.eid[1]
    /\ Given(sel.categories) => record.category \in sel.categories[1]
    /\ Given(sel.ntriples) => record.ntriples \in sel.ntriples[1]
    /\ Given(sel.datasets) => record.dataset \in sel.datasets[1]

MatchingSelectors(v, sel) ==
    {record \in Range(Records(v)) : SatisfiesSelectors(sel, record)}

SelectorsPassed(sel) ==
    \/ sel.idx /= None
    \/ sel.eid /= None
    \/ sel.categories /= None
    \/ sel.ntriples /= None
    \/ sel.datasets /= None

\* C4: a sample call with a selector fails with the IndexError of an empty
\* choice when no record satisfies the supplied clauses, and otherwise returns
\* one of the records that satisfy them
C4_SampleAmongTheMatches ==
    (result.op = "sample" /\ SelectorsPassed(result.selectors)) =>
        LET matching == MatchingSelectors(result.view, result.selectors)
        IN  /\ matching = {} => result.kind = "IndexError" /\ result.value = None
            /\ matching /= {} => result.kind = "ok" /\ result.value[1] \in matching

\* the same for the stores of plain-schema records, whose entries sample can wrap
PlainSampleAmongTheMatches ==
    (/\ result.op = "sample"
     /\ SelectorsPassed(result.selectors)
     /\ views[result.view].release /= "v1.2") =>
        LET matching == MatchingSelectors(result.view, result.selectors)
        IN  /\ matching = {} => result.kind = "IndexError" /\ result.value = None
            /\ matching /= {} => result.kind = "ok" /\ result.value[1] \in matching

\* C5: a subset call changes the store of no existing view, and a write to one
\* view's store (an insert, an update of a top-level field) changes the store
\* of no other view
C5_ParentUntouched ==
    [][\A v \in 1..Len(views) :
          (\/ result'.op = "subset"
           \/ result'.op \in {"insert", "update"} /\ result'.view /= v)
          => Records(v)' = Records(v)]_vars

C5_Witness ==
    /\ result.op = "update"
    /\ views[result.view].parent /= 0
    /\ LET p == views[result.view].parent
       IN  \E i \in 1..len(p) :
              /\ Records(p)[i].idx = Records(result.view)[result.doc].idx
              /\ Records(p)[i].category /= "Monument"
              /\ Records(result.view)[result.doc].category = "Monument"

\* the rows a table should have: one per nested element, in store order
NestedCount(records, field) ==
    SumSeq([i \in 1..Len(records) |-> Len(records[i][field])])

\* C6: the first tabular access of any store the record builder can produce
\* succeeds, with one entries row per record and one row per record and
\* otriple, mtriple and lex, in store order then nested order
C6_FirstAccessYieldsAllRows ==
    (result.op = "as_pandas" /\ result.scanned /\ views[result.view].inserts = 0) =>
        /\ result.kind = "ok"
        /\ LET t == views[result.view].pandas[1]
               records == Records(result.view)
           IN  /\ Len(t.edf.rows) = Len(records)
               /\ Len(t.odf.rows) = NestedCount(records, "otriples")
               /\ Len(t.mdf.rows) = NestedCount(records, "mtriples")
               /\ Len(t.ldf.rows) = NestedCount(records, "lexes")
               /\ \A i \in 1..Len(records) : t.edf.rows[i].idx = records[i].idx

\* C7: the store of a view is scanned at most once, by the first tabular
\* access; every later access returns the group of tables cached by that scan
C7_ScannedOnceThenCached ==
    \A v \in 1..Len(views) :
        /\ views[v].scans <= 1
        /\ (result.op = "as_pandas" /\ result.view = v /\ ~result.scanned) =>
              /\ result.kind = "ok"
              /\ result.value = Just(PropertyOf(views[v].pandas[1], result.prop))

\* the memoization itself: once a view holds its tables they are never written
\* again and the store is not scanned again, also after records were inserted
\* into the store
ProjectionWrittenOnce ==
    [][\A v \in 1..Len(views) :
          views[v].pandas /= None =>
              /\ views'[v].pandas = views[v].pandas
              /\ views'[v].scans = views[v].scans
              /\ (result'.op = "as_pandas" /\ result'.view = v) =>
                    /\ result'.kind = "ok"
                    /\ ~result'.scanned
                    /\ result'.value =
                         Just(PropertyOf(views[v].pandas[1], result'.prop))]_vars

\* a cached table is returned although the store has grown since the scan
StaleTableReturned ==
    /\ result.op = "as_pandas"
    /\ result.kind = "ok"
    /\ ~result.scanned
    /\ result.prop = "odf"
    /\ views[result.view].inserts > 0
    /\ Len(views[result.view].pandas[1].edf.rows) < len(result.view)
    /\ views[result.view].scans = 1

\* the mapping from placeholder to surface string the entity lines spell out
ClaimedEntityMap(entitymap) ==
    [k \in {EntityPair(entitymap[i])[1] : i \in 1..Len(entitymap)} |->
        LET last == CHOOSE i \in 1..Len(entitymap) :
                        /\ EntityPair(entitymap[i])[1] = k
                        /\ \A j \in (i + 1)..Len(entitymap) :
                              EntityPair(entitymap[j])[1] /= k
        IN  EntityPair(entitymap[last])[2]]

\* every subject and object of the entry's modified triples is a placeholder
\* of its entity lines
AllMapped(entry) ==
    \A i \in 1..Len(entry.mtriples) :
        LET d == make_dict_from_triple(entry.mtriples[i])
        IN  /\ d["subject"] \in DOMAIN ClaimedEntityMap(entry.entitymap)
            /\ "object" \in DOMAIN d
            /\ d["object"] \in DOMAIN ClaimedEntityMap(entry.entitymap)

LoadedEntries(release, contents) ==
    Flatten([f \in 1..Len(FilesOf(release, contents)) |->
                FilesOf(release, contents)[f].entries])

\* C8: a richer-schema entry whose placeholders are all mapped is built with
\* entity_map the placeholder-to-surface mapping and delexicalized_mtriples the
\* modified triples with subject and object looked up in it
C8_Delexicalized ==
    (/\ result.op = "load"
     /\ result.release = "v1.2"
     /\ \A i \in 1..Len(LoadedEntries(result.release, result.contents)) :
           AllMapped(LoadedEntries(result.release, result.contents)[i])) =>
        /\ result.kind = "ok"
        /\ LET entries == LoadedEntries(result.release, result.contents)
               records == Records(result.view)
           IN  \A i \in 1..Len(entries) :
                  LET map == ClaimedEntityMap(entries[i].entitymap)
                      m   == records[i].mtriples
                      dm  == records[i].delexicalized_mtriples
                  IN  /\ records[i].entity_map = map
                      /\ Len(dm) = Len(m)
                      /\ \A j \in 1..Len(m) :
                            /\ dm[j].subject = map[m[j].subject]
                            /\ dm[j].object = map[m[j].object]
                            /\ dm[j].predicate = m[j].predicate

\* C9: load of a known release fails with KeyError, returning no view, exactly
\* when a richer-schema entry has a modified triple whose subject or object is
\* missing from its entity map; otherwise it returns a view of every entry of
\* every file, in file then entry order
C9_LoadAllOrMissingKey ==
    (result.op = "load" /\ result.release \in RELEASES_URLS) =>
        LET entries == LoadedEntries(result.release, result.contents)
            missing == /\ result.release = "v1.2"
                       /\ \E i \in 1..Len(entries) : ~AllMapped(entries[i])
        IN  /\ missing => result.kind = "KeyError" /\ result.view = 0
            /\ result.kind = "KeyError" => missing
            /\ ~missing =>
                  /\ result.kind = "ok"
                  /\ len(result.view) = Len(entries)
                  /\ \A i \in 1..Len(entries) :
                        Records(result.view)[i].eid = entries[i].eid

DisjointFields(a, b) == \A i \in 1..3 : ~(Given(a[i]) /\ Given(b[i]))

Merged(a, b) == [i \in 1..3 |-> IF Given(a[i]) THEN a[i] ELSE b[i]]

\* the records a single subset call on view v with these arguments copies
SingleCall(v, args) ==
    LET r == subset(v, args[1], args[2], args[3])
    IN  [i \in 1..Len(r.value) |-> heap[r.value[i]]]

\* C10: a subset of a subset holds the records of the first parent that satisfy
\* the clauses of both calls, in order, whichever call came first; it is what
\* one call supplying both clauses returns, and repeating a subset changes
\* nothing
C10_SubsetComposes ==
    (/\ result.op = "subset"
     /\ result.kind = "ok"
     /\ views[result.view].parent /= 0) =>
        LET u == result.view
            r == views[u].parent
            b == result.args
        IN  \A a \in SubsetArgs :
               ((\E i \in 1..3 : Given(a[i])) /\ Records(u) = Matching(Records(r), a))
               => /\ Records(result.value) = MatchingBoth(Records(r), b, a)
                  /\ DisjointFields(a, b) =>
                        Records(result.value) = SingleCall(r, Merged(a, b))
                  /\ a = b => Records(result.value) = Records(u)

C10_Witness ==
    /\ result.op = "subset"
    /\ result.kind = "ok"
    /\ views[result.view].parent /= 0
    /\ \E a \in SubsetArgs :
          /\ Given(a[2])
          /\ Given(result.args[1])
          /\ DisjointFields(a, result.args)
          /\ Records(result.view) = Matching(Records(views[result.view].parent), a)
          /\ len(result.value) < len(result.view)
          /\ len(result.view) < len(views[result.view].parent)

====
